---- MODULE Spec2Model ----
(***************************************************************************)
(* Model of server/traffic-sender.py: the frame builder (calculate_checksum, *)
(* build_udp_frame) as operators over byte sequences, and send_traffic as   *)
(* a state machine whose program counter walks the statements of the        *)
(* function.  Time is an integer clock (time.monotonic) counted in ticks of  *)
(* 1/TicksPerSec second; TicksPerSec is a multiple of every pps the model    *)
(* draws, so that every scheduled instant start + k/pps falls on a tick.     *)
(***************************************************************************)
EXTENDS Integers, Sequences, FiniteSets, TLC

VARIABLES
    args,            \* the arguments of send_traffic
    pc,              \* position in send_traffic
    sock,            \* the raw socket: "none", "open" or "closed"
    frames,          \* frames[tc], the pre-built frame of each class
    stats,           \* stats[tc], per-class counter
    total,           \* running total
    tc_idx,          \* attempt index
    start_time,      \* time.monotonic() at line 107
    next_send_time,  \* scheduled instant of the next send
    now,             \* the monotonic clock
    res,             \* resolution of the clock: ticks in one interval 1.0 / pps
    exc,             \* the exception in flight or left unhandled, "none" if none
    output,          \* the JSON objects printed so far
    hist,            \* history of the run (observations, not program state)
    call             \* one call of build_udp_frame and what it returned

vars == <<args, pc, sock, frames, stats, total, tc_idx, start_time,
          next_send_time, now, res, exc, output, hist, call>>

(***************************************************************************)
(* Bounds of the model.                                                    *)
(***************************************************************************)
MaxPps == 3          \* pps is drawn from 1..MaxPps
MaxDur == 2          \* duration is drawn from 0..MaxDur seconds
MaxTcs == 3          \* tc_list has 1..MaxTcs entries
MaxDrops == 2        \* sends of one run that raise BlockingIOError
TicksPerInterval == 2   \* clock ticks in one interval 1.0 / pps
MaxPcpIn == 9        \* build_udp_frame is called with pcp in 0..MaxPcpIn
MaxVlanIn == 4097    \* build_udp_frame is called with vlan_id in 0..MaxVlanIn
MaxPayload == 16     \* build_udp_frame is called with payload_size in 0..MaxPayload
FineTicks == 700     \* clock ticks in one interval of the run with the fine clock

(***************************************************************************)
(* Integer helpers: Python's &, | and << on non-negative integers, bit by   *)
(* bit.                                                                    *)
(***************************************************************************)
RECURSIVE BitAnd(_, _)
BitAnd(a, b) ==
    IF a = 0 \/ b = 0 THEN 0
    ELSE (IF a % 2 = 1 /\ b % 2 = 1 THEN 1 ELSE 0) + 2 * BitAnd(a \div 2, b \div 2)

RECURSIVE BitOr(_, _)
BitOr(a, b) ==
    IF a = 0 THEN b
    ELSE IF b = 0 THEN a
    ELSE (IF a % 2 = 1 \/ b % 2 = 1 THEN 1 ELSE 0) + 2 * BitOr(a \div 2, b \div 2)

RECURSIVE ShiftLeft(_, _)
ShiftLeft(a, n) == IF n = 0 THEN a ELSE ShiftLeft(2 * a, n - 1)

RECURSIVE ShiftRight(_, _)
ShiftRight(a, n) == IF n = 0 THEN a ELSE ShiftRight(a \div 2, n - 1)

(***************************************************************************)
(* struct.pack of one unsigned field: big-endian bytes, and the range the   *)
(* format accepts (struct.error outside it).                               *)
(***************************************************************************)
PackB(x) == <<x>>
PackH(x) == <<x \div 256, x % 256>>
FitsB(x) == x >= 0 /\ x <= 255
FitsH(x) == x >= 0 /\ x <= 65535

RECURSIVE SumSeq(_)
SumSeq(s) == IF s = <<>> THEN 0 ELSE Head(s) + SumSeq(Tail(s))

RECURSIVE Concat(_)
Concat(ss) == IF ss = <<>> THEN <<>> ELSE Head(ss) \o Concat(Tail(ss))

(***************************************************************************)
(* calculate_checksum: pad to an even length, sum the 16-bit big-endian     *)
(* words, fold the carries twice, one's complement.                        *)
(***************************************************************************)
\* a plausible slip: the one's complement left out
calculate_checksum_no_complement(data) ==
    LET padded == IF Len(data) % 2 = 1 THEN data \o <<0>> ELSE data
        words  == [i \in 1..(Len(padded) \div 2) |->
                      padded[2 * i - 1] * 256 + padded[2 * i]]
        s0     == SumSeq(words)
        s1     == ShiftRight(s0, 16) + BitAnd(s0, 65535)
        s2     == s1 + ShiftRight(s1, 16)
    IN  BitAnd(s2, 65535)

calculate_checksum(data) ==
    LET padded == IF Len(data) % 2 = 1 THEN data \o <<0>> ELSE data
        words  == [i \in 1..(Len(padded) \div 2) |->
                      padded[2 * i - 1] * 256 + padded[2 * i]]
        s0     == SumSeq(words)
        s1     == ShiftRight(s0, 16) + BitAnd(s0, 65535)
        s2     == s1 + ShiftRight(s1, 16)
    IN  65535 - BitAnd(s2, 65535)

(***************************************************************************)
(* A MAC address as text: a sequence of characters.  str.replace drops the  *)
(* separators, bytes.fromhex reads the rest two hex digits at a time and    *)
(* raises ValueError on a non-hex character or an odd number of digits.     *)
(***************************************************************************)
HexDigits == <<"0", "1", "2", "3", "4", "5", "6", "7", "8", "9",
               "a", "b", "c", "d", "e", "f">>

HexValue(c) == (CHOOSE i \in 1..16 : HexDigits[i] = c) - 1

IsHex(c) == \E i \in 1..16 : HexDigits[i] = c

RECURSIVE Remove(_, _)
Remove(text, c) ==
    IF text = <<>> THEN <<>>
    ELSE IF Head(text) = c THEN Remove(Tail(text), c)
    ELSE <<Head(text)>> \o Remove(Tail(text), c)

FromHexOk(text) ==
    /\ Len(text) % 2 = 0
    /\ \A i \in 1..Len(text) : IsHex(text[i])

FromHex(text) ==
    [i \in 1..(Len(text) \div 2) |->
        16 * HexValue(text[2 * i - 1]) + HexValue(text[2 * i])]

MacDigits(mac) == Remove(Remove(mac, ":"), "-")

(***************************************************************************)
(* build_udp_frame.  The result is [ok |-> TRUE, frame |-> bytes] or, when  *)
(* a statement raises, [ok |-> FALSE, error |-> the exception].            *)
(***************************************************************************)
SrcIp == <<192, 168, 100, 1>>
DstIp == <<192, 168, 100, 2>>

IpHeader(dscp_ecn, total_length, checksum) ==
    Concat(<<PackB(69), PackB(dscp_ecn), PackH(total_length), PackH(0),
             PackH(0), PackB(64), PackB(17), PackH(checksum), SrcIp, DstIp>>)

\* a plausible slip: the PCP shifted by 12 instead of 13
Tci_shift12(vlan_id, pcp) ==
    BitOr(ShiftLeft(BitAnd(pcp, 7), 12), BitAnd(vlan_id, 4095))

Tci(vlan_id, pcp) ==
    BitOr(ShiftLeft(BitAnd(pcp, 7), 13), BitAnd(vlan_id, 4095))

\* a plausible slip: padded to 64 bytes, the minimum frame size with its CRC
Padding_to_64(frame) ==
    IF Len(frame) < 64 THEN [i \in 1..(64 - Len(frame)) |-> 0] ELSE <<>>

Padding(frame) ==
    IF Len(frame) < 60 THEN [i \in 1..(60 - Len(frame)) |-> 0] ELSE <<>>

build_udp_frame(dst_mac, src_mac, vlan_id, pcp, src_port, dst_port, payload_size) ==
    LET dst_text    == MacDigits(dst_mac)
        src_text    == MacDigits(src_mac)
        payload     == [i \in 1..payload_size |-> (i - 1) % 256]
        udp_length  == 8 + Len(payload)
        ip_dscp_ecn == ShiftLeft(pcp, 5)
        ip_total_length == 20 + udp_length
    IN  IF ~ (FromHexOk(dst_text) /\ FromHexOk(src_text))
        THEN [ok |-> FALSE, error |-> "ValueError"]
        ELSE IF ~ (/\ FitsH(src_port) /\ FitsH(dst_port) /\ FitsH(udp_length)
                   /\ FitsB(ip_dscp_ecn) /\ FitsH(ip_total_length))
        THEN [ok |-> FALSE, error |-> "struct.error"]
        ELSE
          LET tpid       == PackH(33024)
              tci        == PackH(Tci(vlan_id, pcp))
              ethertype  == PackH(2048)
              udp_header == Concat(<<PackH(src_port), PackH(dst_port),
                                     PackH(udp_length), PackH(0)>>)
              ip_checksum == calculate_checksum(IpHeader(ip_dscp_ecn, ip_total_length, 0))
              ip_header  == IpHeader(ip_dscp_ecn, ip_total_length, ip_checksum)
              frame      == Concat(<<FromHex(dst_text), FromHex(src_text), tpid, tci,
                                     ethertype, ip_header, udp_header, payload>>)
          IN  [ok |-> TRUE, frame |-> frame \o Padding(frame)]

(***************************************************************************)
(* The clock.  time.monotonic() is read in ticks, res of them to the        *)
(* interval 1.0 / pps of the run, so that every scheduled instant           *)
(* start_time + k * interval falls on a tick and 1 second is pps * res      *)
(* ticks.  res is TicksPerInterval, or FineTicks where the 0.001 s          *)
(* threshold of the wait has to be longer than a tick.  The 0.0005 s margin *)
(* and the 0.001 s threshold are kept exact by comparing in units of        *)
(* 1/HalfMsPerSec tick.                                                    *)
(***************************************************************************)
TicksPerSec == args.pps * res

ClockOrigin == 3     \* the reading of time.monotonic() when the program starts

HalfMsPerSec == 2000
SleepMargin == 1      \* 0.0005 s, in 1/HalfMsPerSec second
SleepThreshold == 2   \* 0.001 s, in 1/HalfMsPerSec second

interval == res

duration_ticks == args.duration * TicksPerSec

\* sleep_time = next_send_time - time.monotonic() - 0.0005, times HalfMsPerSec ticks
sleep_time == (next_send_time - now) * HalfMsPerSec - SleepMargin * TicksPerSec

\* time.sleep(sleep_time) has returned: at least sleep_time has passed since the call
SleepOver == now * HalfMsPerSec >= next_send_time * HalfMsPerSec - SleepMargin * TicksPerSec

(***************************************************************************)
(* The inputs.                                                             *)
(***************************************************************************)
MacColon  == <<"a","a",":","b","b",":","c","c",":","d","d",":","e","e",":","f","f">>
MacHyphen == <<"1","1","-","2","2","-","3","3","-","4","4","-","5","5","-","6","6">>
MacNotHex == <<"a","a",":","b","b",":","c","c",":","d","d",":","e","e",":","g","g">>
MacOdd    == <<"1","1","-","2","2","-","3","3","-","4","4","-","5","5","-","6">>

MacPairs == {<<MacColon, MacHyphen>>, <<MacNotHex, MacHyphen>>, <<MacColon, MacOdd>>}

TcLists ==
    {[i \in 1..n |-> 2 * (i - 1)] : n \in 1..MaxTcs}
        \cup {<<5, 3>>, <<1, 1, 4>>, <<8>>}

TcSet(tcs) == {tcs[i] : i \in 1..Len(tcs)}

Distinct(tcs) == \A i, j \in 1..Len(tcs) : tcs[i] = tcs[j] => i = j

RECURSIVE SumOver(_, _)
SumOver(f, S) ==
    IF S = {} THEN 0
    ELSE LET x == CHOOSE y \in S : TRUE IN f[x] + SumOver(f, S \ {x})

\* round(n / d) to an integer, ties to even, as Python's round
RoundHalfEven(n, d) ==
    LET q == n \div d
        r == n % d
    IN  IF 2 * r < d THEN q
        ELSE IF 2 * r > d THEN q + 1
        ELSE IF q % 2 = 0 THEN q ELSE q + 1

NoCall == [done |-> FALSE]

\* hist: acquired - a socket object was created; acq_failed - lines 85-87 raised;
\* entered - the loop was reached; wire - frames sock.send accepted, sent_by[tc]
\* per class, last_tc the class of the latest; drops - sends that raised
\* BlockingIOError; ideal - no time has passed outside the waits;
\* interrupted - KeyboardInterrupt was raised; slot - next_send_time at the
\* latest call of sock.send; wait - how line 117-121 waited before it
NoHist == [acquired |-> FALSE, acq_failed |-> FALSE, entered |-> FALSE,
           wire |-> 0, sent_by |-> <<>>, last_tc |-> -1, drops |-> 0,
           ideal |-> TRUE, interrupted |-> FALSE, slot |-> -1, wait |-> "none"]

Init ==
    /\ args \in {[dst_mac |-> m[1], src_mac |-> m[2], vlan_id |-> 100,
                  tc_list |-> tcs, pps |-> p, duration |-> d, payload_size |-> 10] :
                     m \in MacPairs, tcs \in TcLists, p \in 1..MaxPps, d \in 0..MaxDur}
    /\ pc = "acquire"
    /\ sock = "none"
    /\ frames = <<>>
    /\ stats = <<>>
    /\ total = 0
    /\ tc_idx = 0
    /\ start_time = 0
    /\ next_send_time = 0
    /\ now = ClockOrigin
    /\ res = TicksPerInterval
    /\ exc = "none"
    /\ output = <<>>
    /\ hist = NoHist
    /\ call = NoCall

(***************************************************************************)
(* Lines 84-90: the socket is created, bound and made non-blocking.  Any of *)
(* the three calls may raise; the handler prints an error object and        *)
(* returns.                                                                *)
(***************************************************************************)
AcquireOk ==
    /\ pc = "acquire"
    /\ sock' = "open"
    /\ hist' = [hist EXCEPT !.acquired = TRUE]
    /\ pc' = "build"
    /\ UNCHANGED <<args, res, frames, stats, total, tc_idx, start_time, next_send_time,
                   now, exc, output, call>>

\* a plausible slip: the handler prints the error and forgets to return
AcquireFail_no_return ==
    /\ pc = "acquire"
    /\ \E failed \in {"socket", "bind", "setblocking"} :
          /\ sock' = IF failed = "socket" THEN "none" ELSE "open"
          /\ hist' = [hist EXCEPT !.acquired = (failed # "socket"),
                                   !.acq_failed = TRUE]
    /\ output' = Append(output, [error |-> "OSError"])
    /\ pc' = "build"
    /\ UNCHANGED <<args, res, frames, stats, total, tc_idx, start_time, next_send_time,
                   now, exc, call>>

AcquireFail ==
    /\ pc = "acquire"
    /\ \E failed \in {"socket", "bind", "setblocking"} :
          /\ sock' = IF failed = "socket" THEN "none" ELSE "open"
          /\ hist' = [hist EXCEPT !.acquired = (failed # "socket"),
                                   !.acq_failed = TRUE]
    /\ output' = Append(output, [error |-> "OSError"])
    /\ pc' = "returned"
    /\ UNCHANGED <<args, res, frames, stats, total, tc_idx, start_time, next_send_time,
                   now, exc, call>>

(***************************************************************************)
(* Lines 92-100: one frame per class.  An exception of build_udp_frame is   *)
(* outside every try statement and leaves send_traffic unhandled.           *)
(***************************************************************************)
\* a plausible slip: the same pair of ports for every class
BuiltFrame_fixed_ports(c) ==
    build_udp_frame(args.dst_mac, args.src_mac, args.vlan_id, c,
                    10000, 20000, args.payload_size)

BuiltFrame(tc) ==
    build_udp_frame(args.dst_mac, args.src_mac, args.vlan_id, tc,
                    10000 + tc, 20000 + tc, args.payload_size)

FirstBad ==
    IF \A k \in 1..Len(args.tc_list) : BuiltFrame(args.tc_list[k]).ok
    THEN 0
    ELSE CHOOSE k \in 1..Len(args.tc_list) :
            /\ ~ BuiltFrame(args.tc_list[k]).ok
            /\ \A j \in 1..(k - 1) : BuiltFrame(args.tc_list[j]).ok

BuildFrames ==
    /\ pc = "build"
    /\ IF FirstBad = 0
       THEN /\ frames' = [tc \in TcSet(args.tc_list) |-> BuiltFrame(tc).frame]
            /\ pc' = "setup"
            /\ exc' = exc
       ELSE /\ frames' = [tc \in TcSet(SubSeq(args.tc_list, 1, FirstBad - 1)) |->
                             BuiltFrame(tc).frame]
            /\ pc' = "crashed"
            /\ exc' = BuiltFrame(args.tc_list[FirstBad]).error
    /\ UNCHANGED <<args, res, sock, stats, total, tc_idx, start_time, next_send_time,
                   now, output, hist, call>>

(***************************************************************************)
(* Lines 102-109.                                                          *)
(***************************************************************************)
Setup ==
    /\ pc = "setup"
    /\ stats' = [tc \in TcSet(args.tc_list) |-> 0]
    /\ total' = 0
    /\ start_time' = now
    /\ next_send_time' = now
    /\ tc_idx' = 0
    /\ hist' = [hist EXCEPT !.entered = TRUE,
                             !.sent_by = [c \in TcSet(args.tc_list) |-> 0]]
    /\ pc' = "loop"
    /\ UNCHANGED <<args, res, sock, frames, now, exc, output, call>>

(***************************************************************************)
(* Lines 112-115: the duration check at the head of the loop.               *)
(***************************************************************************)
\* a plausible slip: the duration check left out of the loop
LoopCheck_no_break ==
    /\ pc = "loop"
    /\ pc' = "wait_check"
    /\ UNCHANGED <<args, res, sock, frames, stats, total, tc_idx, start_time,
                   next_send_time, now, exc, output, hist, call>>

LoopCheck ==
    /\ pc = "loop"
    /\ LET elapsed == now - start_time
       IN  pc' = IF elapsed >= duration_ticks THEN "finally" ELSE "wait_check"
    /\ UNCHANGED <<args, res, sock, frames, stats, total, tc_idx, start_time,
                   next_send_time, now, exc, output, hist, call>>

(***************************************************************************)
(* Lines 117-121: wait for the scheduled instant - nothing when it has      *)
(* passed, else an optional time.sleep followed by busy_wait_until.         *)
(***************************************************************************)
WaitCheck ==
    /\ pc = "wait_check"
    /\ pc' = IF now < next_send_time THEN "calc_sleep" ELSE "send"
    /\ hist' = [hist EXCEPT !.wait = "none"]
    /\ UNCHANGED <<args, res, sock, frames, stats, total, tc_idx, start_time,
                   next_send_time, now, exc, output, call>>

CalcSleep ==
    /\ pc = "calc_sleep"
    /\ pc' = IF sleep_time > SleepThreshold * TicksPerSec THEN "sleep" ELSE "busy"
    /\ hist' = [hist EXCEPT !.wait = IF pc' = "sleep" THEN "sleep" ELSE "busy"]
    /\ UNCHANGED <<args, res, sock, frames, stats, total, tc_idx, start_time,
                   next_send_time, now, exc, output, call>>

Sleep ==
    /\ pc = "sleep"
    /\ SleepOver
    /\ pc' = "busy"
    /\ UNCHANGED <<args, res, sock, frames, stats, total, tc_idx, start_time,
                   next_send_time, now, exc, output, hist, call>>

\* a plausible slip: the busy wait returns at once
busy_wait_until_no_wait ==
    /\ pc = "busy"
    /\ pc' = "send"
    /\ UNCHANGED <<args, res, sock, frames, stats, total, tc_idx, start_time,
                   next_send_time, now, exc, output, hist, call>>

\* lines 77-80: the loop of busy_wait_until ends at the first reading >= target_time
busy_wait_until ==
    /\ pc = "busy"
    /\ ~ (now < next_send_time)
    /\ pc' = "send"
    /\ UNCHANGED <<args, res, sock, frames, stats, total, tc_idx, start_time,
                   next_send_time, now, exc, output, hist, call>>

(***************************************************************************)
(* Lines 123-129: the class of this attempt and sock.send.  The send        *)
(* returns, raises BlockingIOError (caught, line 128) or raises another     *)
(* OSError (not caught: the finally clause runs and the exception leaves    *)
(* send_traffic).                                                          *)
(***************************************************************************)
\* a plausible slip: the class chosen by the number of counted sends
tc_by_total == args.tc_list[(total % Len(args.tc_list)) + 1]

tc == args.tc_list[(tc_idx % Len(args.tc_list)) + 1]

SendOk ==
    /\ pc = "send"
    /\ hist' = [hist EXCEPT !.wire = @ + 1, !.sent_by[tc] = @ + 1,
                             !.last_tc = tc, !.slot = next_send_time]
    /\ pc' = "count_stats"
    /\ UNCHANGED <<args, res, sock, frames, stats, total, tc_idx, start_time,
                   next_send_time, now, exc, output, call>>

\* a plausible slip: the counters updated before the send, so a send that
\* raises BlockingIOError is counted
SendWouldBlock_counted ==
    /\ pc = "send"
    /\ hist.drops < MaxDrops
    /\ hist' = [hist EXCEPT !.drops = @ + 1, !.slot = next_send_time]
    /\ stats' = [stats EXCEPT ![tc] = @ + 1]
    /\ total' = total + 1
    /\ pc' = "advance"
    /\ UNCHANGED <<args, res, sock, frames, tc_idx, start_time, next_send_time, now,
                   exc, output, call>>

SendWouldBlock ==
    /\ pc = "send"
    /\ hist.drops < MaxDrops
    /\ hist' = [hist EXCEPT !.drops = @ + 1, !.slot = next_send_time]
    /\ pc' = "advance"
    /\ UNCHANGED <<args, res, sock, frames, stats, total, tc_idx, start_time,
                   next_send_time, now, exc, output, call>>

SendError ==
    /\ pc = "send"
    /\ exc' = "OSError"
    /\ pc' = "finally"
    /\ UNCHANGED <<args, res, sock, frames, stats, total, tc_idx, start_time,
                   next_send_time, now, output, hist, call>>

\* line 126
CountStats ==
    /\ pc = "count_stats"
    /\ stats' = [stats EXCEPT ![tc] = @ + 1]
    /\ pc' = "count_total"
    /\ UNCHANGED <<args, res, sock, frames, total, tc_idx, start_time, next_send_time,
                   now, exc, output, hist, call>>

\* line 127
CountTotal ==
    /\ pc = "count_total"
    /\ total' = total + 1
    /\ pc' = "advance"
    /\ UNCHANGED <<args, res, sock, frames, stats, tc_idx, start_time, next_send_time,
                   now, exc, output, hist, call>>

\* a plausible slip: tc_idx not advanced
Advance_same_class ==
    /\ pc = "advance"
    /\ next_send_time' = start_time + (total + 1) * interval
    /\ pc' = "loop"
    /\ UNCHANGED <<args, res, sock, frames, stats, total, tc_idx, start_time, now, exc,
                   output, hist, call>>

\* lines 131-132
Advance ==
    /\ pc = "advance"
    /\ tc_idx' = tc_idx + 1
    /\ next_send_time' = start_time + (total + 1) * interval
    /\ pc' = "loop"
    /\ UNCHANGED <<args, res, sock, frames, stats, total, start_time, now, exc,
                   output, hist, call>>

(***************************************************************************)
(* KeyboardInterrupt is raised between two statements of the try block      *)
(* (lines 111-133) and caught at line 134.                                 *)
(***************************************************************************)
TryPcs == {"loop", "wait_check", "calc_sleep", "sleep", "busy", "send",
           "count_stats", "count_total", "advance"}

\* a plausible slip: no except clause, the interrupt leaves the try statement
KeyboardInterrupt_uncaught ==
    /\ pc \in TryPcs
    /\ hist' = [hist EXCEPT !.interrupted = TRUE]
    /\ exc' = "KeyboardInterrupt"
    /\ pc' = "finally"
    /\ UNCHANGED <<args, res, sock, frames, stats, total, tc_idx, start_time,
                   next_send_time, now, output, call>>

KeyboardInterrupt ==
    /\ pc \in TryPcs
    /\ hist' = [hist EXCEPT !.interrupted = TRUE]
    /\ pc' = "finally"
    /\ UNCHANGED <<args, res, sock, frames, stats, total, tc_idx, start_time,
                   next_send_time, now, exc, output, call>>

(***************************************************************************)
(* Lines 136-137: the finally clause; an exception in flight goes on.       *)
(***************************************************************************)
Finally ==
    /\ pc = "finally"
    /\ sock' = "closed"
    /\ pc' = IF exc = "none" THEN "report" ELSE "crashed"
    /\ UNCHANGED <<args, res, frames, stats, total, tc_idx, start_time, next_send_time,
                   now, exc, output, hist, call>>

(***************************************************************************)
(* Lines 139-149: the result object.  duration is in milliseconds and       *)
(* actual_pps in tenths, both rounded as round() does.                      *)
(***************************************************************************)
Report ==
    /\ pc = "report"
    /\ LET actual_duration == now - start_time
       IN  output' = Append(output,
              [success |-> TRUE,
               sent |-> stats,
               total |-> total,
               duration |-> RoundHalfEven(actual_duration * 1000, TicksPerSec),
               actual_pps |-> IF actual_duration > 0
                              THEN RoundHalfEven(total * TicksPerSec * 10, actual_duration)
                              ELSE 0,
               payload_size |-> args.payload_size])
    /\ pc' = "returned"
    /\ UNCHANGED <<args, res, sock, frames, stats, total, tc_idx, start_time,
                   next_send_time, now, exc, hist, call>>

(***************************************************************************)
(* The clock advances while the loop runs.  A tick that passes while the    *)
(* loop is not waiting for its scheduled instant is time the statements     *)
(* took: hist.ideal records that there was none.                            *)
(***************************************************************************)
\* The clock is followed until two intervals after the duration: the last
\* instant the loop can be waiting for.
Horizon == duration_ticks + 2 * interval

Waiting ==
    \/ pc = "sleep" /\ ~ SleepOver
    \/ pc = "busy" /\ now < next_send_time

Tick ==
    /\ pc \in TryPcs
    /\ now - start_time < Horizon
    /\ now' = now + 1
    /\ hist' = [hist EXCEPT !.ideal = @ /\ Waiting]
    /\ UNCHANGED <<args, res, pc, sock, frames, stats, total, tc_idx, start_time,
                   next_send_time, exc, output, call>>

\* lines 84-109, before the loop
Prepare == AcquireOk \/ AcquireFail \/ BuildFrames \/ Setup

\* lines 111-149, the statements of the loop and after it
Run ==
    \/ LoopCheck \/ WaitCheck \/ CalcSleep \/ Sleep \/ busy_wait_until
    \/ SendOk \/ SendWouldBlock \/ SendError
    \/ CountStats \/ CountTotal \/ Advance
    \/ Finally \/ Report

Next == Prepare \/ Run \/ KeyboardInterrupt \/ Tick

Spec == Init /\ [][Next]_vars

(***************************************************************************)
(* build_udp_frame on its own: one call per behaviour, with the arguments   *)
(* send_traffic passes (ports 10000 + tc and 20000 + tc) and pcp, vlan_id   *)
(* drawn from ranges that reach past the 3-bit and 12-bit fields.           *)
(***************************************************************************)
InitFrame ==
    /\ args = [dst_mac |-> MacColon, src_mac |-> MacHyphen, vlan_id |-> 100,
               tc_list |-> <<0>>, pps |-> 1, duration |-> 0, payload_size |-> 10]
    /\ pc = "acquire"
    /\ sock = "none"
    /\ frames = <<>>
    /\ stats = <<>>
    /\ total = 0
    /\ tc_idx = 0
    /\ start_time = 0
    /\ next_send_time = 0
    /\ now = ClockOrigin
    /\ res = TicksPerInterval
    /\ exc = "none"
    /\ output = <<>>
    /\ hist = NoHist
    /\ call \in
          {[done |-> FALSE, dst_mac |-> m[1], src_mac |-> m[2], vlan_id |-> v,
            pcp |-> p, payload_size |-> 10] :
               m \in MacPairs, v \in 0..MaxVlanIn, p \in 0..MaxPcpIn}
          \cup
          {[done |-> FALSE, dst_mac |-> MacColon, src_mac |-> MacHyphen, vlan_id |-> v,
            pcp |-> p, payload_size |-> n] :
               v \in {0, 100, 4095, 4196}, p \in 0..MaxPcpIn,
               n \in (0..MaxPayload) \cup {300}}

CallBuild ==
    /\ ~ call.done
    /\ call' = [done |-> TRUE, dst_mac |-> call.dst_mac, src_mac |-> call.src_mac,
                vlan_id |-> call.vlan_id, pcp |-> call.pcp,
                payload_size |-> call.payload_size,
                result |-> build_udp_frame(call.dst_mac, call.src_mac, call.vlan_id,
                                           call.pcp, 10000 + call.pcp, 20000 + call.pcp,
                                           call.payload_size)]
    /\ UNCHANGED <<args, res, pc, sock, frames, stats, total, tc_idx, start_time,
                   next_send_time, now, exc, output, hist>>

FrameSpec == InitFrame /\ [][CallBuild]_vars

(***************************************************************************)
(* C10: for pcp in 0..7 and vlan_id in 0..4095 the frame carries the TPID   *)
(* 0x8100 in bytes 12-13 and, in bytes 14-15, the TCI pcp * 8192 + vlan_id; *)
(* TCI div 8192 is pcp, TCI mod 4096 is vlan_id and bit 12 is 0.            *)
(***************************************************************************)
FrameTci(frame) == frame[15] * 256 + frame[16]

C10_TciPacksPcpAndVlan ==
    (call.done /\ call.pcp <= 7 /\ call.vlan_id <= 4095 /\ call.result.ok) =>
        LET f == call.result.frame IN
        /\ f[13] = 129 /\ f[14] = 0
        /\ FrameTci(f) = call.pcp * 8192 + call.vlan_id
        /\ FrameTci(f) \div 8192 = call.pcp
        /\ FrameTci(f) % 4096 = call.vlan_id
        /\ (FrameTci(f) \div 4096) % 2 = 0

C10_Witness ==
    /\ call.done
    /\ call.pcp = 5 /\ call.vlan_id = 100
    /\ call.result.ok
    /\ FrameTci(call.result.frame) = 41060

(***************************************************************************)
(* C11: for pcp in 0..7 and every payload size, calculate_checksum over the *)
(* 20 bytes of the finished IPv4 header (bytes 18-37 of the frame, with the *)
(* checksum filled in) is 0: the 16-bit words of the header add up to a     *)
(* non-zero multiple of 0xFFFF.                                            *)
(***************************************************************************)
FrameIpHeader(frame) == SubSeq(frame, 19, 38)

WordSum(bytes) == SumSeq([i \in 1..(Len(bytes) \div 2) |->
                             bytes[2 * i - 1] * 256 + bytes[2 * i]])

C11_HeaderChecksumVerifies ==
    (call.done /\ call.pcp <= 7 /\ call.result.ok) =>
        LET h == FrameIpHeader(call.result.frame) IN
        /\ Len(h) = 20
        /\ calculate_checksum(h) = 0
        /\ WordSum(h) > 0 /\ WordSum(h) % 65535 = 0

C11_Witness ==
    /\ call.done /\ call.result.ok
    /\ call.pcp = 5 /\ call.payload_size = 300
    /\ call.result.frame[29] * 256 + call.result.frame[30] > 0
    /\ calculate_checksum(FrameIpHeader(call.result.frame)) = 0

(***************************************************************************)
(* C12: with well-formed 6-byte MAC addresses and payload_size >= 0 the     *)
(* frame is max(60, 46 + payload_size) bytes long; what follows the 46      *)
(* header bytes and the payload is zero padding, and there is none when     *)
(* 46 + payload_size >= 60.                                                *)
(***************************************************************************)
C12_FrameLength ==
    (call.done /\ call.result.ok /\ call.payload_size >= 0) =>
        LET f == call.result.frame
            unpadded == 46 + call.payload_size
        IN  /\ Len(f) = IF unpadded < 60 THEN 60 ELSE unpadded
            /\ Len(f) >= 60
            /\ \A i \in 1..call.payload_size : f[46 + i] = (i - 1) % 256
            /\ \A i \in (unpadded + 1)..Len(f) : f[i] = 0
            /\ unpadded >= 60 => Len(f) = unpadded

C12_Witness ==
    /\ call.done /\ call.result.ok
    /\ call.payload_size = 13
    /\ Len(call.result.frame) = 60
    /\ call.result.frame[59] = 12 /\ call.result.frame[60] = 0

(***************************************************************************)
(* C13: for every vlan_id and pcp, also past 4095 and 7, build_udp_frame    *)
(* returns a frame, and it is the frame built from vlan_id mod 4096 and     *)
(* pcp mod 8 with the other arguments unchanged.                            *)
(***************************************************************************)
C13_MaskingPolicy ==
    (call.done /\ FromHexOk(MacDigits(call.dst_mac)) /\ FromHexOk(MacDigits(call.src_mac))) =>
        /\ call.result.ok
        /\ call.result =
              build_udp_frame(call.dst_mac, call.src_mac, call.vlan_id % 4096,
                              call.pcp % 8, 10000 + call.pcp, 20000 + call.pcp,
                              call.payload_size)

(***************************************************************************)
(* Observations used by the properties.                                    *)
(***************************************************************************)
Terminated == pc \in {"returned", "crashed"}

IsSuccess(r) == "success" \in DOMAIN r

Classes == TcSet(args.tc_list)

NumTcs == Len(args.tc_list)

Abs(x) == IF x < 0 THEN -x ELSE x

(***************************************************************************)
(* C1: at the head of every loop iteration and in every reported result,    *)
(* the per-class counters sum to the total and their key set is the set of  *)
(* classes of tc_list.                                                     *)
(***************************************************************************)
C1_CountersSumToTotal ==
    /\ pc = "loop" =>
          /\ DOMAIN stats = Classes
          /\ SumOver(stats, DOMAIN stats) = total
    /\ \A i \in 1..Len(output) :
          IsSuccess(output[i]) =>
             /\ DOMAIN output[i].sent = Classes
             /\ SumOver(output[i].sent, DOMAIN output[i].sent) = output[i].total

(***************************************************************************)
(* C2: with distinct classes and no would-block so far, the i-th frame on   *)
(* the wire (i = 0, 1, ...) is of class tc_list[i mod n], and the per-class *)
(* counts (frames on the wire, and the counters) of two classes never       *)
(* differ by more than 1.                                                  *)
(***************************************************************************)
C2_RoundRobin ==
    (hist.entered /\ hist.drops = 0 /\ Distinct(args.tc_list)) =>
        /\ hist.wire > 0 => hist.last_tc = args.tc_list[((hist.wire - 1) % NumTcs) + 1]
        /\ \A a, b \in Classes :
              /\ Abs(hist.sent_by[a] - hist.sent_by[b]) <= 1
              /\ Abs(stats[a] - stats[b]) <= 1

C2_Witness ==
    /\ hist.drops = 0
    /\ args.tc_list = <<0, 2, 4>>
    /\ hist.wire = 5 /\ hist.last_tc = 2
    /\ pc = "loop"
    /\ stats = (0 :> 2 @@ 2 :> 2 @@ 4 :> 1)

(***************************************************************************)
(* C3: no run ends with a socket that was created and not closed.           *)
(***************************************************************************)
C3_HandleClosedOnEveryExit ==
    (Terminated /\ hist.acquired) => sock = "closed"

(***************************************************************************)
(* C4: a send that raises BlockingIOError changes no counter and no total,  *)
(* raises nothing, prints nothing and goes on to lines 131-132 and the next *)
(* iteration; at the head of every iteration the counters are exactly the   *)
(* frames the socket accepted.                                             *)
(***************************************************************************)
C4_WouldBlockNotCounted ==
    /\ [][hist'.drops > hist.drops =>
             /\ stats' = stats
             /\ total' = total
             /\ hist'.wire = hist.wire
             /\ exc' = "none"
             /\ output' = output
             /\ sock' = "open"
             /\ pc' = "advance"]_vars
    /\ [][(pc = "advance" /\ pc' # "advance" /\ ~ hist'.interrupted) =>
             (pc' = "loop" /\ stats' = stats /\ total' = total)]_vars
    /\ [](pc = "loop" => (total = hist.wire /\ stats = hist.sent_by))

C4_Witness ==
    /\ pc = "loop"
    /\ hist.drops = 2
    /\ hist.wire = 1
    /\ total = 1

(***************************************************************************)
(* C5: after a KeyboardInterrupt in the loop no frame is sent and no        *)
(* counter changes, no exception is left, and the run ends with the socket  *)
(* closed and exactly one result, a success carrying the counters and the   *)
(* total as they were at the interrupt.                                     *)
(***************************************************************************)
C5_InterruptIsGraceful ==
    /\ [][hist.interrupted =>
             /\ hist'.wire = hist.wire
             /\ stats' = stats
             /\ total' = total]_vars
    /\ [](hist.interrupted => (exc = "none" /\ pc \in {"finally", "report", "returned"}))
    /\ []((hist.interrupted /\ pc \in {"report", "returned"}) => sock = "closed")
    /\ []((hist.interrupted /\ pc = "returned") =>
             /\ Len(output) = 1
             /\ IsSuccess(output[1])
             /\ output[1].success = TRUE
             /\ output[1].sent = stats
             /\ output[1].total = total)

C5_Witness ==
    /\ hist.interrupted
    /\ pc = "returned"
    /\ total = 1
    /\ output[1].total = 1
    /\ sock = "closed"

(***************************************************************************)
(* C6: every run ends with exactly one printed result and never with an     *)
(* unhandled exception.                                                    *)
(***************************************************************************)
C6_AlwaysOneResult ==
    /\ pc # "crashed"
    /\ Terminated => Len(output) = 1

(***************************************************************************)
(* C7: when lines 85-87 raise, the run is over: no frame was built, the     *)
(* loop was not entered, nothing was sent, and the only output is an        *)
(* object whose single key is "error".                                     *)
(***************************************************************************)
C7_AcquisitionFailure ==
    hist.acq_failed =>
        /\ pc = "returned"
        /\ frames = <<>>
        /\ ~ hist.entered
        /\ hist.wire = 0 /\ hist.drops = 0
        /\ Len(output) = 1
        /\ DOMAIN output[1] = {"error"}

C7_Witness ==
    /\ hist.acq_failed
    /\ hist.acquired
    /\ pc = "returned"
    /\ Len(output) = 1

(***************************************************************************)
(* C8: with duration >= 1, no would-block, no interrupt, no hard error and  *)
(* no time passing outside the waits, the reported total is within 5 % of   *)
(* pps * duration.                                                         *)
(***************************************************************************)
C8_TotalWithinFivePercent ==
    (/\ pc = "returned" /\ hist.entered
     /\ hist.ideal /\ hist.drops = 0 /\ ~ hist.interrupted
     /\ args.duration >= 1) =>
        20 * Abs(output[1].total - args.pps * args.duration) <= args.pps * args.duration


(***************************************************************************)
(* The scheduling of the run: once in the loop the interpreter goes on      *)
(* executing statements and the monotonic clock goes on advancing.  No      *)
(* interrupt need arrive.                                                  *)
(***************************************************************************)
\* the liveness property is checked over the runs with well-formed MAC
\* addresses, at most two classes and at most MaxPps intervals in the duration
InitLive ==
    /\ Init
    /\ args.dst_mac = MacColon /\ args.src_mac = MacHyphen
    /\ Len(args.tc_list) <= 2
    /\ args.pps * args.duration <= MaxPps

FairSpec == InitLive /\ [][Next]_vars /\ WF_vars(Run) /\ WF_vars(Tick)

(***************************************************************************)
(* C9: once the loop is entered, whatever sends raise BlockingIOError, the  *)
(* run leaves the loop and closes the socket, and - unless a send raised a  *)
(* hard error - prints a success result with the counters collected.        *)
(***************************************************************************)
C9_LoopTerminates ==
    hist.entered ~>
        /\ sock = "closed"
        /\ \/ pc = "crashed" /\ exc = "OSError"
           \/ /\ pc = "returned"
              /\ Len(output) = 1
              /\ IsSuccess(output[1])
              /\ output[1].sent = stats
              /\ output[1].total = total

C9_Witness ==
    /\ pc = "returned"
    /\ args.duration >= 1
    /\ hist.drops = MaxDrops /\ hist.wire = 0
    /\ ~ hist.interrupted
    /\ sock = "closed"
    /\ output[1].total = 0

(***************************************************************************)
(* C14: while the loop waits for and makes the transmission that follows    *)
(* k counted sends (total = k), the scheduled instant next_send_time is     *)
(* start_time + k * interval.                                              *)
(***************************************************************************)
AtAttempt == pc \in {"wait_check", "calc_sleep", "sleep", "busy", "send"}

C14_ScheduleFormula ==
    AtAttempt => next_send_time = start_time + total * interval

(***************************************************************************)
(* C15: every attempt, sent or would-block, is made for a scheduled instant *)
(* later than the one of the attempt before it: a would-block is not        *)
(* followed by another attempt, of any class, at the same instant.          *)
(***************************************************************************)
Attempts == hist.wire + hist.drops

C15_OneAttemptPerInstant ==
    [][Attempts' > Attempts => next_send_time > hist.slot]_vars

(***************************************************************************)
(* C16: a frame is handed to sock.send only while the elapsed time is       *)
(* below the duration, also when the wait before it carried the clock past  *)
(* the deadline.  Stated for the runs in which the clock advances only      *)
(* during the waits (hist.ideal), where nothing but the wait of lines       *)
(* 117-121 can carry the clock past the deadline.                           *)
(***************************************************************************)
C16_NoSendPastDeadline ==
    [][(hist'.wire > hist.wire /\ hist.ideal) =>
           now - start_time < duration_ticks]_vars

(***************************************************************************)
(* C17: the class of an attempt is chosen by the attempt index: when        *)
(* sock.send is called for the j-th time (j counted from 0, would-blocks    *)
(* included) the class is tc_list[j mod n], so the attempt after a          *)
(* would-block is for the next class; and at the head of every iteration    *)
(* and at every attempt tc_idx = total + number of would-blocks.            *)
(***************************************************************************)
C17_ClassByAttemptIndex ==
    /\ pc = "send" => tc = args.tc_list[(Attempts % NumTcs) + 1]
    /\ pc \in {"loop", "send"} => tc_idx = total + hist.drops

C17_Witness ==
    /\ pc = "send"
    /\ args.tc_list = <<0, 2, 4>>
    /\ hist.wire = 1 /\ hist.drops = 1 /\ hist.last_tc = 0
    /\ tc = 4 /\ tc_idx = 2 /\ total = 1

(***************************************************************************)
(* C18: the frames are built before the first transmission and the loop     *)
(* never changes the frames map; the frame handed to sock.send for class c  *)
(* is the frame build_udp_frame returns for c: its TCI carries PCP c and    *)
(* its UDP ports are 10000 + c and 20000 + c.                               *)
(***************************************************************************)
FramePcp(frame) == FrameTci(frame) \div 8192

FrameSrcPort(frame) == frame[39] * 256 + frame[40]

FrameDstPort(frame) == frame[41] * 256 + frame[42]

C18_FramesBuiltOnce ==
    [][/\ (pc = "build" /\ pc' = "setup") =>
             /\ DOMAIN frames' = TcSet(args.tc_list)
             /\ \A c \in DOMAIN frames' :
                   frames'[c] = build_udp_frame(args.dst_mac, args.src_mac,
                                                args.vlan_id, c, 10000 + c,
                                                20000 + c, args.payload_size).frame
       /\ pc \notin {"acquire", "build"} => frames' = frames
       /\ (pc = "send" /\ Attempts' > Attempts) =>
             /\ FramePcp(frames[tc]) = tc
             /\ FrameSrcPort(frames[tc]) = 10000 + tc
             /\ FrameDstPort(frames[tc]) = 20000 + tc]_vars

C18_Witness ==
    /\ pc = "count_stats" /\ hist.wire = 2 /\ hist.last_tc = 3
    /\ args.tc_list = <<5, 3>>
    /\ FramePcp(frames[3]) = 3 /\ FramePcp(frames[5]) = 5
    /\ FrameSrcPort(frames[3]) = 10003 /\ FrameDstPort(frames[3]) = 20003

(***************************************************************************)
(* A run with a clock fine enough for the 0.001 s threshold of line 119:    *)
(* 1 packet per second for 1 second, one class, FineTicks ticks to the      *)
(* second.  With a remaining wait of one tick sleep_time is at most         *)
(* 0.001 s and the loop only busy-waits.                                    *)
(***************************************************************************)
InitFine ==
    /\ args = [dst_mac |-> MacColon, src_mac |-> MacHyphen, vlan_id |-> 100,
               tc_list |-> <<0>>, pps |-> 1, duration |-> 1, payload_size |-> 10]
    /\ pc = "acquire"
    /\ sock = "none"
    /\ frames = <<>>
    /\ stats = <<>>
    /\ total = 0
    /\ tc_idx = 0
    /\ start_time = 0
    /\ next_send_time = 0
    /\ now = ClockOrigin
    /\ res = FineTicks
    /\ exc = "none"
    /\ output = <<>>
    /\ hist = NoHist
    /\ call = NoCall

FineSpec == InitFine /\ [][Next]_vars

(***************************************************************************)
(* C19: sock.send is never called before the scheduled instant: whenever    *)
(* the loop is about to send, time.monotonic() >= next_send_time, whether   *)
(* it did not wait, only busy-waited, or slept and busy-waited; and when    *)
(* the loop is behind schedule (now >= next_send_time at line 117) it goes  *)
(* to the send without waiting.                                             *)
(***************************************************************************)
C19_NeverEarly ==
    [][/\ pc' = "send" => now' >= next_send_time'
       /\ Attempts' > Attempts => now >= next_send_time
       /\ (pc = "wait_check" /\ now >= next_send_time
              /\ pc' \notin {"wait_check", "finally"}) => pc' = "send"]_vars

\* the busy-wait-only branch: one tick before the scheduled instant at line 117
C19_Witness ==
    /\ pc = "send" /\ hist.wait = "busy"
    /\ hist.drops = 1 /\ hist.slot = start_time
    /\ now = next_send_time /\ next_send_time = start_time + interval

====
